---- MODULE Spec2Model ----
(***************************************************************************)
(* The event-analysis pipeline of FOMO-Bot (src/backend/llm_analyzer.py):  *)
(* several execution contexts, each with its own LLMAnalyzer instance,     *)
(* call analyze_economic_event against one shared database and one shared  *)
(* class-level rate limiter.                                               *)
(*                                                                         *)
(* Time is counted in ticks.  The code reads the clock only to form the    *)
(* difference time.time() - _last_api_call_time and to compare it with     *)
(* _min_request_interval, so the model keeps that difference itself,       *)
(* capped at the interval (a larger value behaves like the interval).      *)
(*                                                                         *)
(* calls_done, ext_calls, rows_made, stamped, prev and since_start record  *)
(* what has happened; the code does not keep them.                         *)
(*                                                                         *)
(* Three specifications share the module:                                  *)
(*   Spec       concurrent calls of analyze_economic_event and the rate    *)
(*              limiter;                                                   *)
(*   RunSpec    one report-generation session of src/frontend/app.py: the  *)
(*              background thread, the batch it runs, the status queue and *)
(*              the subscribers of the status stream (FairRunSpec adds the *)
(*              scheduling of the threads);                                *)
(*   ParseSpec  _parse_analysis applied to texts that are not JSON.        *)
(* The variables of the parts a specification does not exercise keep their *)
(* initial values in it.  published and trace record what has happened;    *)
(* the code does not keep them.                                            *)
(***************************************************************************)
EXTENDS Integers, Sequences, FiniteSets, TLC

VARIABLES
    config,            \* the Config row the readers see, or None
    events,            \* economic_events table: id -> row
    event_analyses,    \* event_analyses table: sequence of rows, id = position
    rate_limit_lock,   \* LLMAnalyzer._rate_limit_lock: NoLock or a lock object
    lock_holder,       \* lock object -> the context inside it, or Nobody
    since_last_call,   \* time.time() - LLMAnalyzer._last_api_call_time, capped
    pc,                \* context -> its position in the code
    api_key,           \* context -> self.api_key of its LLMAnalyzer
    my_lock,           \* context -> the lock object whose `with` block it is in
    sleep_left,        \* context -> ticks left of its time.sleep
    local,             \* context -> locals of its analyze_economic_event call
    result,            \* context -> value returned by its latest call
    calls_done,        \* calls of analyze_economic_event started so far
    ext_calls,         \* context -> requests.post issued by its current call
    rows_made,         \* context -> rows inserted by its current call
    stamped,           \* context -> its current call wrote _last_api_call_time
    prev,              \* context -> summary of its previous call, when that
                       \*   call was for the same event and market, else None
    since_start,       \* ticks since the latest requests.post started, capped
    status_queues,     \* app.status_queues: the session ids that have a queue
    queue,             \* the records in the Queue object of the session
    run_pc,            \* position of the background thread of the session
    run,               \* locals of _generate_report_async and of the batch
    published,         \* every record _send_status has put, in order
    trace,             \* progress callbacks and engine calls of the batch
    sub_pc,            \* subscriber -> position in status_stream's generate():
                       \*   "detached", "reading", and the three ends "done"
                       \*   (terminal record read), "not_found" (no queue at
                       \*   the start), "failed" (exception while reading)
    rx,                \* subscriber -> the records its stream has carried
    cleanup_pc,        \* subscriber -> position of the cleanup thread it began
    parse_in,          \* the text handed to _parse_analysis, or None
    parse_out,         \* what _parse_analysis returned for it, or None
    wait_count,        \* subscriber -> wait_count of its wait for the queue
    saved_form,        \* the form save_config handled last, or None
    reports,           \* reports table: sequence of rows, id = position
    req,               \* request -> position and locals of its handling
    scrapes,           \* times the calendar page was fetched
    report_in,         \* the events and analyses a report is built from
    report_out         \* events_data of _get_events_with_analyses, or None

pipeline_vars == <<config, events, event_analyses, rate_limit_lock, lock_holder,
                   since_last_call, pc, api_key, my_lock, sleep_left, local,
                   result, calls_done, ext_calls, rows_made, stamped, prev,
                   since_start>>
channel_vars == <<status_queues, queue, published, sub_pc, rx, cleanup_pc,
                  wait_count>>
run_vars == <<run_pc, run, trace>>
parse_vars == <<parse_in, parse_out>>
admin_vars == <<saved_form>>
twin_vars == <<reports, req, scrapes>>
report_vars == <<report_in, report_out>>
aux_vars == <<admin_vars, twin_vars, report_vars>>

vars == <<pipeline_vars, channel_vars, run_vars, parse_vars, aux_vars>>

-----------------------------------------------------------------------------
(* Bounds of the model *)

MaxCalls == 2        \* analyze_economic_event calls, all contexts together

Ctx == {1, 2}

\* the readers of the status stream of one session
Subscribers == {1, 2}

-----------------------------------------------------------------------------
(* Values *)

None == [none |-> TRUE]
NoLock == 0
Nobody == 0
NoId == 0            \* Python None as an analysis id: row ids start at 1

\* LLMAnalyzer._min_request_interval = 1.0: one tick of the clock is a second
min_request_interval == 1

Markets == {"FDAX", "BTC"}

\* rows of economic_events present in the store
StoredEvents ==
    (1 :> [date |-> 1, importance |-> "Low", event_name |-> "PMI"]) @@
    (2 :> [date |-> 1, importance |-> "High", event_name |-> "CPI Release"])

\* event ids a caller may pass: the stored ones and one that is not stored
EventIds == (DOMAIN StoredEvents) \cup {3}

Get(d, k, default) == IF k \in DOMAIN d THEN d[k] ELSE default

Min(a, b) == IF a < b THEN a ELSE b

-----------------------------------------------------------------------------
(* Configuration readers *)

\* _get_api_key: the Config row's llm_api_key, None without a row
GetApiKey(cfg) == IF cfg = None THEN "" ELSE cfg.llm_api_key

\* _get_star_filter: the row's star_filter when it is set and non-zero, else 1
GetStarFilter(cfg) ==
    IF cfg # None /\ cfg.star_filter # 0 THEN cfg.star_filter ELSE 1

\* _get_llm_model: the row's llm_model when the row has one that is set, else
\* the default; reading an attribute the row does not have raises, and the
\* handler returns the default too
GetLlmModel(cfg) ==
    IF cfg # None /\ "llm_model" \in DOMAIN cfg /\ cfg.llm_model # ""
    THEN cfg.llm_model ELSE "gpt-4o-mini"

\* _get_event_importance: importance_map.get(importance_str, 1)
GetEventImportance(importance_str) ==
    CASE importance_str = "Low" -> 1
      [] importance_str = "Medium" -> 2
      [] importance_str = "High" -> 3
      [] OTHER -> 1

\* the comparison with the threshold itself counted as below it
BelowThresholdInclusive(event_importance, star_filter) ==
    event_importance <= star_filter

\* `if event_importance < star_filter`
BelowThreshold(event_importance, star_filter) == event_importance < star_filter

-----------------------------------------------------------------------------
(* What the external service can answer *)

FullJson ==
    [is_relevant |-> TRUE, event_description |-> "desc",
     analysis_text |-> "analysis", impact_score |-> 8,
     sentiment_summary |-> "bullish", key_factors |-> <<"f1", "f2">>,
     expert_commentary |-> "expert"]

IrrelevantJson == [FullJson EXCEPT !.is_relevant = FALSE]

\* only the three fields _save_analysis_to_db reads with []
PartialJson ==
    [analysis_text |-> "analysis", impact_score |-> 3,
     sentiment_summary |-> "bearish"]

\* a JSON object that lacks analysis_text, impact_score and sentiment_summary
MissingFieldsJson == [is_relevant |-> TRUE, event_description |-> "desc"]

\* free text, line by line: the words the fallback looks for and the digits
FreeLines ==
    { <<[words |-> {"impact"}, digits |-> <<1, 2>>],
        [words |-> {"impact", "bearish"}, digits |-> <<7>>]>> }

\* message content of a 2xx answer, by what _parse_analysis makes of it:
\*   "json"    once the markdown fence, if any, is removed, a JSON object
\*   "broken"  starts with '{' but json.loads raises
\*   "free"    any other text
Contents ==
    [form : {"json"}, raw : {"json"}, lines : {<<>>},
     value : {FullJson, IrrelevantJson, PartialJson, MissingFieldsJson}]
    \cup [form : {"broken"}, raw : {"{broken"}, lines : {<<>>}, value : {None}]
    \cup [form : {"free"}, raw : {"free"}, lines : FreeLines, value : {None}]

\* outcomes of requests.post ... result['choices'][0]['message']['content']:
\*   "transport_error"  requests.post raises
\*   "http_error"       raise_for_status() raises
\*   "bad_body"         response.json() raises
\*   "no_choices"       the JSON body has no choices[0].message.content
\*   "ok"               the content is a text
Replies ==
    [status : {"transport_error", "http_error", "bad_body", "no_choices"},
     content : {None}]
    \cup [status : {"ok"}, content : Contents]

\* raise_for_status() and response.json() passed
BodyParsed(reply) == reply.status \in {"ok", "no_choices"}

-----------------------------------------------------------------------------
(* _parse_analysis *)

RECURSIVE DigitsToInt(_)
\* int(''.join(filter(str.isdigit, line)))
DigitsToInt(ds) ==
    IF ds = <<>> THEN 0 ELSE 10 * DigitsToInt(SubSeq(ds, 1, Len(ds) - 1)) + ds[Len(ds)]

RECURSIVE ExtractImpact(_, _)
\* the loop over lines: the last line with 'impact', a digit and a score in 1..10
ExtractImpact(lines, score) ==
    IF lines = <<>> THEN score
    ELSE LET line == Head(lines)
             s == DigitsToInt(line.digits)
             hit == "impact" \in line.words /\ line.digits # <<>>
                    /\ 1 <= s /\ s <= 10
         IN  ExtractImpact(Tail(lines), IF hit THEN s ELSE score)

TextHas(lines, w) == \E i \in 1..Len(lines) : w \in lines[i].words

ExtractSentiment(lines) ==
    IF TextHas(lines, "bullish") THEN "bullish"
    ELSE IF TextHas(lines, "bearish") THEN "bearish"
    ELSE "neutral"

ParseAnalysis(content) ==
    CASE content.form = "json" -> content.value
      [] content.form = "broken" ->
            [event_description |-> "Event description not available due to parsing error.",
             analysis_text |-> content.raw, impact_score |-> 5,
             sentiment_summary |-> "neutral", key_factors |-> <<>>,
             expert_commentary |-> "Expert commentary not available due to parsing error."]
      [] OTHER ->
            [event_description |-> "Event description not available in this format.",
             analysis_text |-> content.raw,
             impact_score |-> ExtractImpact(content.lines, 5),
             sentiment_summary |-> ExtractSentiment(content.lines),
             key_factors |-> <<>>,
             expert_commentary |-> "Expert commentary not available in this format."]

\* the relevance test left out
IsRelevantAlways(structured) == TRUE

\* `structured_analysis.get('is_relevant', True)`
IsRelevant(structured) == Get(structured, "is_relevant", TRUE)

-----------------------------------------------------------------------------
(* Analysis Store *)

Matching(rows, event_id, market_symbol) ==
    {i \in 1..Len(rows) : rows[i].event_id = event_id
                          /\ rows[i].market_symbol = market_symbol}

\* the lookup filtering on the row's own id instead of its event_id
ExistingAnalysisById(rows, event_id, market_symbol) ==
    LET m == {i \in 1..Len(rows) : rows[i].id = event_id
                                   /\ rows[i].market_symbol = market_symbol}
    IN  IF m = {} THEN None ELSE rows[CHOOSE i \in m : \A j \in m : j <= i]

\* the lookup of analyze_economic_event: the newest matching row, or None
ExistingAnalysis(rows, event_id, market_symbol) ==
    LET m == Matching(rows, event_id, market_symbol)
    IN  IF m = {} THEN None ELSE rows[CHOOSE i \in m : \A j \in m : j <= i]

\* the keys _save_analysis_to_db reads with analysis[...]
RequiredKeys == {"analysis_text", "impact_score", "sentiment_summary"}

CanSave(analysis) == RequiredKeys \subseteq DOMAIN analysis

\* the EventAnalysis row _save_analysis_to_db builds
NewRow(id, event_id, market_symbol, analysis) ==
    [id |-> id, event_id |-> event_id, market_symbol |-> market_symbol,
     event_description |-> Get(analysis, "event_description", ""),
     analysis_text |-> analysis.analysis_text,
     impact_score |-> analysis.impact_score,
     sentiment_summary |-> analysis.sentiment_summary,
     search_sources |-> Get(analysis, "key_factors", <<>>),
     expert_commentary |-> Get(analysis, "expert_commentary", "")]

\* Python's `x or ''` on a text column
OrEmpty(x) == IF x = "" THEN "" ELSE x

\* the record returned for an analysis that already exists
MemoResult(existing) ==
    [is_relevant |-> TRUE,
     event_description |-> OrEmpty(existing.event_description),
     analysis_text |-> existing.analysis_text,
     impact_score |-> existing.impact_score,
     sentiment_summary |-> existing.sentiment_summary,
     key_factors |-> IF existing.search_sources = <<>> THEN <<>>
                     ELSE existing.search_sources,
     expert_commentary |-> OrEmpty(existing.expert_commentary)]

\* the record returned for a fresh analysis
FreshResult(analysis_id, event_id, structured) ==
    [analysis_id |-> analysis_id, event_id |-> event_id, analysis |-> structured]

-----------------------------------------------------------------------------
(* State after start-up: the database is populated, no LLMAnalyzer exists *)

NoLocals ==
    [event_id |-> 0, market_symbol |-> "", existing |-> None,
     event_data |-> None, star_filter |-> 0, reply |-> None,
     structured |-> None]

Configs ==
    {None} \cup [llm_api_key : {"", "sk-key"}, star_filter : 1..3]

\* no LLMAnalyzer exists and no call of analyze_economic_event was made
PipelineAtRest ==
    /\ rate_limit_lock = NoLock
    /\ lock_holder = [l \in Ctx |-> Nobody]
    /\ since_last_call = min_request_interval
    /\ pc = [t \in Ctx |-> "new"]
    /\ api_key = [t \in Ctx |-> ""]
    /\ my_lock = [t \in Ctx |-> NoLock]
    /\ sleep_left = [t \in Ctx |-> 0]
    /\ local = [t \in Ctx |-> NoLocals]
    /\ result = [t \in Ctx |-> None]
    /\ calls_done = 0
    /\ ext_calls = [t \in Ctx |-> 0]
    /\ rows_made = [t \in Ctx |-> 0]
    /\ stamped = [t \in Ctx |-> FALSE]
    /\ prev = [t \in Ctx |-> None]
    /\ since_start = min_request_interval

\* no report generation was requested: status_queues = {} (app.py line 28)
ChannelAtRest ==
    /\ status_queues = {}
    /\ queue = <<>>
    /\ run_pc = "none"
    /\ run = None
    /\ published = <<>>
    /\ trace = <<>>
    /\ sub_pc = [u \in Subscribers |-> "detached"]
    /\ rx = [u \in Subscribers |-> <<>>]
    /\ cleanup_pc = [u \in Subscribers |-> "none"]
    /\ wait_count = [u \in Subscribers |-> 0]

\* _parse_analysis is not exercised on its own
ParserAtRest == parse_in = None /\ parse_out = None

\* no request is being handled
NoRequest ==
    [pc |-> "idle", batch |-> <<>>, plan |-> <<>>, report_id |-> NoId]

\* save_config was not called, no request is being handled, no report is
\* being built
AuxAtRest ==
    /\ saved_form = None
    /\ reports = <<>>
    /\ req = [t \in Ctx |-> NoRequest]
    /\ scrapes = 0
    /\ report_in = None
    /\ report_out = None

Init ==
    /\ config \in Configs
    /\ events = StoredEvents
    /\ event_analyses = <<>>
    /\ rate_limit_lock = NoLock
    /\ lock_holder = [l \in Ctx |-> Nobody]
    /\ since_last_call = min_request_interval
    /\ pc = [t \in Ctx |-> "new"]
    /\ api_key = [t \in Ctx |-> ""]
    /\ my_lock = [t \in Ctx |-> NoLock]
    /\ sleep_left = [t \in Ctx |-> 0]
    /\ local = [t \in Ctx |-> NoLocals]
    /\ result = [t \in Ctx |-> None]
    /\ calls_done = 0
    /\ ext_calls = [t \in Ctx |-> 0]
    /\ rows_made = [t \in Ctx |-> 0]
    /\ stamped = [t \in Ctx |-> FALSE]
    /\ prev = [t \in Ctx |-> None]
    /\ since_start = min_request_interval
    /\ ChannelAtRest
    /\ ParserAtRest
    /\ AuxAtRest

db_vars == <<config, events, event_analyses>>
limiter_vars == <<rate_limit_lock, lock_holder, since_last_call, my_lock, sleep_left>>
call_vars == <<local, result, calls_done, ext_calls, rows_made, stamped, prev>>
start_vars == <<since_start>>

\* the call of context t returns value r
Return(t, r) ==
    /\ result' = [result EXCEPT ![t] = r]
    /\ pc' = [pc EXCEPT ![t] = "returned"]

-----------------------------------------------------------------------------
(* LLMAnalyzer.__init__ *)

\* self.api_key = self._get_api_key(), and the test
\* `if LLMAnalyzer._rate_limit_lock is None`
InitCheckLock(t) ==
    /\ pc[t] = "new"
    /\ api_key' = [api_key EXCEPT ![t] = GetApiKey(config)]
    /\ pc' = [pc EXCEPT ![t] = IF rate_limit_lock = NoLock THEN "init_lock" ELSE "idle"]
    /\ UNCHANGED <<channel_vars, run_vars, parse_vars, aux_vars,
                   db_vars, limiter_vars, call_vars, start_vars>>

\* LLMAnalyzer._rate_limit_lock = threading.Lock(): a new lock object
InitCreateLock(t) ==
    /\ pc[t] = "init_lock"
    /\ rate_limit_lock' = t
    /\ pc' = [pc EXCEPT ![t] = "idle"]
    /\ UNCHANGED <<channel_vars, run_vars, parse_vars, aux_vars,
                   db_vars, lock_holder, since_last_call, my_lock, sleep_left,
                   api_key, call_vars, start_vars>>

-----------------------------------------------------------------------------
(* analyze_economic_event *)

\* what a finished call leaves for the comparison with the next one
Summary(t) ==
    [event_id |-> local[t].event_id, market_symbol |-> local[t].market_symbol,
     result |-> result[t], ext_calls |-> ext_calls[t], rows_made |-> rows_made[t]]

\* Market symbols are interchangeable: the first call is taken to be the one
\* for FDAX.
CallMarkets == IF calls_done = 0 THEN {"FDAX"} ELSE Markets

\* Contexts are interchangeable: the first call is taken to be made by 1.
MayCall(t) == t = 1 \/ calls_done > 0

\* entry and the lookup of an existing analysis
AnalyzeLookup(t, event_id, market_symbol) ==
    /\ pc[t] \in {"idle", "returned"}
    /\ MayCall(t)
    /\ calls_done < MaxCalls
    /\ market_symbol \in CallMarkets
    /\ calls_done' = calls_done + 1
    /\ prev' = [prev EXCEPT ![t] =
                   IF /\ pc[t] = "returned"
                      /\ local[t].event_id = event_id
                      /\ local[t].market_symbol = market_symbol
                   THEN Summary(t) ELSE None]
    /\ ext_calls' = [ext_calls EXCEPT ![t] = 0]
    /\ rows_made' = [rows_made EXCEPT ![t] = 0]
    /\ stamped' = [stamped EXCEPT ![t] = FALSE]
    /\ LET existing == ExistingAnalysis(event_analyses, event_id, market_symbol)
       IN  /\ local' = [local EXCEPT ![t] =
                          [NoLocals EXCEPT !.event_id = event_id,
                                           !.market_symbol = market_symbol,
                                           !.existing = existing]]
           /\ IF existing # None
              THEN Return(t, MemoResult(existing))
              ELSE /\ pc' = [pc EXCEPT ![t] = "get_event"]
                   /\ result' = [result EXCEPT ![t] = None]
    /\ UNCHANGED <<channel_vars, run_vars, parse_vars, aux_vars,
                   db_vars, limiter_vars, api_key, start_vars>>

\* _get_event_data
GetEventData(rows, event_id) ==
    IF event_id \in DOMAIN rows THEN rows[event_id] ELSE None

\* the event is read, then the star filter; an event that passes goes on to
\* _call_llm_api, which gives up at once without an api key
CheckEvent(t) ==
    /\ pc[t] = "get_event"
    /\ LET event_data == GetEventData(events, local[t].event_id)
           star_filter == GetStarFilter(config)
       IN  IF event_data = None
           THEN /\ local' = [local EXCEPT ![t].event_data = None]
                /\ Return(t, None)
           ELSE /\ local' = [local EXCEPT ![t].event_data = event_data,
                                          ![t].star_filter = star_filter]
                /\ IF BelowThreshold(GetEventImportance(event_data.importance),
                                     star_filter)
                      \/ api_key[t] = ""
                   THEN Return(t, None)
                   ELSE pc' = [pc EXCEPT ![t] = "rl_acquire"] /\ UNCHANGED result
    /\ UNCHANGED <<channel_vars, run_vars, parse_vars, aux_vars,
                   db_vars, limiter_vars, api_key, calls_done, ext_calls,
                   rows_made, stamped, prev, start_vars>>

-----------------------------------------------------------------------------
(* _enforce_rate_limit *)

\* a `with` block that is left with the lock still held
ReleaseNothing(t) == UNCHANGED <<lock_holder, my_lock>>

\* the lock is free again once the `with` block of its holder is left
Release(t) ==
    /\ lock_holder' = [lock_holder EXCEPT ![my_lock[t]] = Nobody]
    /\ my_lock' = [my_lock EXCEPT ![t] = NoLock]

\* `with LLMAnalyzer._rate_limit_lock:` enters the lock object the class holds now
AcquireLock(t) ==
    /\ pc[t] = "rl_acquire"
    /\ lock_holder[rate_limit_lock] = Nobody
    /\ lock_holder' = [lock_holder EXCEPT ![rate_limit_lock] = t]
    /\ my_lock' = [my_lock EXCEPT ![t] = rate_limit_lock]
    /\ pc' = [pc EXCEPT ![t] = "rl_read"]
    /\ UNCHANGED <<channel_vars, run_vars, parse_vars, aux_vars,
                   db_vars, rate_limit_lock, since_last_call, sleep_left,
                   api_key, call_vars, start_vars>>

\* sleep_time = _min_request_interval - time_since_last_call
SleepTime(time_since_last_call) == min_request_interval - time_since_last_call

\* the read of the timestamp and the comparison; without a sleep the block ends
CheckInterval(t) ==
    /\ pc[t] = "rl_read"
    /\ IF since_last_call < min_request_interval
       THEN /\ sleep_left' = [sleep_left EXCEPT ![t] = SleepTime(since_last_call)]
            /\ pc' = [pc EXCEPT ![t] = "rl_sleep"]
            /\ UNCHANGED <<lock_holder, my_lock>>
       ELSE /\ Release(t)
            /\ pc' = [pc EXCEPT ![t] = "post"]
            /\ UNCHANGED sleep_left
    /\ UNCHANGED <<channel_vars, run_vars, parse_vars, aux_vars,
                   db_vars, rate_limit_lock, since_last_call,
                   api_key, call_vars, start_vars>>

\* time.sleep(sleep_time) returns and the block ends
SleepDone(t) ==
    /\ pc[t] = "rl_sleep"
    /\ sleep_left[t] = 0
    /\ Release(t)
    /\ pc' = [pc EXCEPT ![t] = "post"]
    /\ UNCHANGED <<channel_vars, run_vars, parse_vars, aux_vars,
                   db_vars, rate_limit_lock, since_last_call,
                   sleep_left, api_key, call_vars, start_vars>>

-----------------------------------------------------------------------------
(* _call_llm_api after the rate limiter *)

\* requests.post(...) is issued
CallStart(t) ==
    /\ pc[t] = "post"
    /\ ext_calls' = [ext_calls EXCEPT ![t] = @ + 1]
    /\ since_start' = 0
    /\ pc' = [pc EXCEPT ![t] = "in_flight"]
    /\ UNCHANGED <<channel_vars, run_vars, parse_vars, aux_vars,
                   db_vars, limiter_vars, api_key, local, result, calls_done,
                   rows_made, stamped, prev>>

\* the request returns; raise_for_status() and response.json() run
CallReturn(t, reply) ==
    /\ pc[t] = "in_flight"
    /\ local' = [local EXCEPT ![t].reply = reply]
    /\ IF BodyParsed(reply)
       THEN pc' = [pc EXCEPT ![t] = "stamp"] /\ UNCHANGED result
       ELSE Return(t, None)
    /\ UNCHANGED <<channel_vars, run_vars, parse_vars, aux_vars,
                   db_vars, limiter_vars, api_key, calls_done, ext_calls,
                   rows_made, stamped, prev, start_vars>>

\* LLMAnalyzer._last_api_call_time = time.time(); then the content is taken
\* out of the body, parsed, and tested for relevance
StampAndParse(t) ==
    /\ pc[t] = "stamp"
    /\ since_last_call' = 0
    /\ stamped' = [stamped EXCEPT ![t] = TRUE]
    /\ LET reply == local[t].reply
           usable == reply.status = "ok"
           structured == IF usable THEN ParseAnalysis(reply.content) ELSE None
       IN  /\ local' = [local EXCEPT ![t].structured = structured]
           /\ IF usable /\ IsRelevant(structured)
              THEN pc' = [pc EXCEPT ![t] = "save"] /\ UNCHANGED result
              ELSE Return(t, None)
    /\ UNCHANGED <<channel_vars, run_vars, parse_vars, aux_vars,
                   db_vars, rate_limit_lock, lock_holder, my_lock, sleep_left,
                   api_key, calls_done, ext_calls, rows_made, prev, start_vars>>

\* _save_analysis_to_db, and the return of the new record
SaveAnalysis(t) ==
    /\ pc[t] = "save"
    /\ LET structured == local[t].structured
           id == Len(event_analyses) + 1
       IN  IF CanSave(structured)
           THEN /\ event_analyses' =
                      Append(event_analyses,
                             NewRow(id, local[t].event_id,
                                    local[t].market_symbol, structured))
                /\ rows_made' = [rows_made EXCEPT ![t] = @ + 1]
                /\ Return(t, FreshResult(id, local[t].event_id, structured))
           ELSE /\ UNCHANGED <<event_analyses, rows_made>>
                /\ Return(t, FreshResult(NoId, local[t].event_id, structured))
    /\ UNCHANGED <<channel_vars, run_vars, parse_vars, aux_vars,
                   config, events, limiter_vars, api_key, local, calls_done,
                   ext_calls, stamped, prev, start_vars>>

-----------------------------------------------------------------------------
(* The clock *)

Tick ==
    /\ since_last_call' = Min(since_last_call + 1, min_request_interval)
    /\ since_start' = Min(since_start + 1, min_request_interval)
    /\ sleep_left' = [t \in Ctx |-> IF sleep_left[t] > 0 THEN sleep_left[t] - 1 ELSE 0]
    /\ UNCHANGED <<channel_vars, run_vars, parse_vars, aux_vars,
                   db_vars, rate_limit_lock, lock_holder, my_lock, pc, api_key,
                   call_vars>>

-----------------------------------------------------------------------------

Next ==
    \/ \E t \in Ctx : InitCheckLock(t)
    \/ \E t \in Ctx : InitCreateLock(t)
    \/ \E t \in Ctx, event_id \in EventIds, market_symbol \in Markets :
           AnalyzeLookup(t, event_id, market_symbol)
    \/ \E t \in Ctx : CheckEvent(t)
    \/ \E t \in Ctx : AcquireLock(t)
    \/ \E t \in Ctx : CheckInterval(t)
    \/ \E t \in Ctx : SleepDone(t)
    \/ \E t \in Ctx : CallStart(t)
    \/ \E t \in Ctx, reply \in Replies : CallReturn(t, reply)
    \/ \E t \in Ctx : StampAndParse(t)
    \/ \E t \in Ctx : SaveAnalysis(t)
    \/ Tick

Spec == Init /\ [][Next]_vars

-----------------------------------------------------------------------------
(* Vocabulary of the properties *)

Returned(t) == pc[t] = "returned"

\* the lookup of the current call of t found no stored analysis
NotMemoized(t) == local[t].existing = None

\* the current call of t is the second of two successive calls for one pair
SecondCall(t) == prev[t] # None

\* the importance scale as the specification gives it
SpecImportance(importance_str) ==
    CASE importance_str = "Low" -> 1
      [] importance_str = "Medium" -> 2
      [] importance_str = "High" -> 3

EventMissing(t) == local[t].event_id \notin DOMAIN events

\* the event of t's call is stored and its importance is below the configured
\* star filter
UnderStarFilter(t) ==
    /\ ~EventMissing(t)
    /\ config # None
    /\ SpecImportance(events[local[t].event_id].importance) < config.star_filter

\* the external call of t was made and did not deliver a message text
ExternalCallFailed(t) ==
    /\ ext_calls[t] = 1
    /\ local[t].reply # None
    /\ local[t].reply.status # "ok"

\* the external call of t delivered a text
GotText(t) ==
    /\ ext_calls[t] = 1
    /\ local[t].reply # None
    /\ local[t].reply.status = "ok"

\* the text says is_relevant: false
MarkedIrrelevant(t) ==
    /\ GotText(t)
    /\ local[t].reply.content.form = "json"
    /\ "is_relevant" \in DOMAIN local[t].reply.content.value
    /\ local[t].reply.content.value.is_relevant = FALSE

\* t holds the rate-limit lock it entered
HoldsLock(t) == my_lock[t] # NoLock /\ lock_holder[my_lock[t]] = t

-----------------------------------------------------------------------------
(* C1 *)

\* C1 as stated: two successive calls for one (event, market) pair issue at
\* most one external call and create at most one row together, whatever the
\* first call's outcome.
C1_TwoCallsAtMostOneExternalCall ==
    \A t \in Ctx :
        SecondCall(t) =>
            /\ prev[t].ext_calls + ext_calls[t] <= 1
            /\ prev[t].rows_made + rows_made[t] <= 1

\* C1, amended: two successive calls for one (event, market) pair issue at most
\* one external call and create at most one row together when the first call
\* stored its analysis or issued no external call.
C1_MemoizedOncePersisted ==
    \A t \in Ctx :
        (SecondCall(t) /\ (prev[t].rows_made = 1 \/ prev[t].ext_calls = 0)) =>
            /\ prev[t].ext_calls + ext_calls[t] <= 1
            /\ prev[t].rows_made + rows_made[t] <= 1

\* a second call has returned after a first call that stored its analysis
C1_Witness ==
    \E t \in Ctx :
        /\ Returned(t) /\ SecondCall(t)
        /\ prev[t].rows_made = 1 /\ prev[t].ext_calls = 1
        /\ ext_calls[t] = 0 /\ rows_made[t] = 0
        /\ result[t] # None

-----------------------------------------------------------------------------
(* C2 *)

\* C2: after a first call that stored its analysis, the second call for the
\* same pair returns the same record as the first.
C2_SecondCallReturnsFirstResult ==
    \A t \in Ctx :
        (Returned(t) /\ SecondCall(t) /\ prev[t].rows_made = 1) =>
            result[t] = prev[t].result

-----------------------------------------------------------------------------
(* C3 *)

\* C3: the Analysis Store never holds two rows for one (event_id,
\* market_symbol) pair.
C3_OneRowPerPair ==
    \A event_id \in EventIds, market_symbol \in Markets :
        Cardinality(Matching(event_analyses, event_id, market_symbol)) <= 1

-----------------------------------------------------------------------------
(* C4 *)

\* C4: while a single context is the only one that runs, each of its external
\* calls starts at least _min_request_interval after the previous one.
C4_SingleContextSpacing ==
    [][\A t \in Ctx :
          (CallStart(t) /\ \A u \in Ctx \ {t} : pc[u] = "new")
              => since_start >= min_request_interval]_vars

-----------------------------------------------------------------------------
(* C5 *)

\* C5: an external call that starts while another context's external call is
\* in flight starts at least _min_request_interval after the latest start.
C5_ConcurrentSpacing ==
    [][\A t \in Ctx, u \in Ctx :
          (u # t /\ CallStart(t) /\ pc[u] = "in_flight")
              => since_start >= min_request_interval]_vars

-----------------------------------------------------------------------------
(* C6 *)

\* C6: once a call that issued an external request has returned, it has
\* written _last_api_call_time, whether the request succeeded or failed.
C6_TimestampUpdatedAfterEveryCall ==
    \A t \in Ctx : (Returned(t) /\ ext_calls[t] = 1) => stamped[t]

-----------------------------------------------------------------------------
(* C7 *)

\* C7: a context that is about to read or to write _last_api_call_time holds
\* the rate-limit lock.
C7_TimestampAccessUnderLock ==
    \A t \in Ctx : pc[t] \in {"rl_read", "stamp"} => HoldsLock(t)

-----------------------------------------------------------------------------
(* C8 *)

\* C8: for a stored event without a stored analysis and a star filter in
\* 1..3, a call makes no external call and no row when the importance is below
\* the filter, and exactly one external call when it is at or above the filter
\* and an API key is configured.
C8_ThresholdFilter ==
    \A t \in Ctx :
        (/\ Returned(t) /\ NotMemoized(t) /\ ~EventMissing(t)
         /\ config # None /\ config.star_filter \in 1..3) =>
            LET importance ==
                    SpecImportance(events[local[t].event_id].importance)
            IN  /\ importance < config.star_filter
                       => ext_calls[t] = 0 /\ rows_made[t] = 0
                /\ (importance >= config.star_filter /\ api_key[t] # "")
                       => ext_calls[t] = 1

\* with star filter 3, a call for the Low event returned without an external
\* call and a call for the High event returned after one
C8_Witness ==
    /\ config # None /\ config.star_filter = 3
    /\ \E t \in Ctx, u \in Ctx :
        /\ Returned(t) /\ NotMemoized(t) /\ ~EventMissing(t)
        /\ events[local[t].event_id].importance = "Low"
        /\ ext_calls[t] = 0 /\ rows_made[t] = 0
        /\ Returned(u) /\ NotMemoized(u) /\ ~EventMissing(u)
        /\ events[local[u].event_id].importance = "High"
        /\ ext_calls[u] = 1

-----------------------------------------------------------------------------
(* C9 *)

\* C9: a call inserts a row only after the external call delivered a text that
\* is not marked irrelevant; a call whose event is missing, whose importance is
\* below the filter, whose external call failed or whose text is marked
\* irrelevant returns None and inserts nothing.
C9_NoPartialWrite ==
    \A t \in Ctx :
        /\ rows_made[t] >= 1 => (GotText(t) /\ ~MarkedIrrelevant(t))
        /\ (/\ Returned(t) /\ NotMemoized(t)
            /\ \/ EventMissing(t)
               \/ UnderStarFilter(t)
               \/ ExternalCallFailed(t)
               \/ MarkedIrrelevant(t)) =>
               (result[t] = None /\ rows_made[t] = 0)

\* one call returned None for a text marked irrelevant, another stored a row
C9_Witness ==
    \E t \in Ctx, u \in Ctx :
        /\ Returned(t) /\ MarkedIrrelevant(t) /\ result[t] = None
        /\ Returned(u) /\ rows_made[u] = 1 /\ GotText(u)

-----------------------------------------------------------------------------
(* C10 *)

\* C10: a call whose external call delivered a text that is not marked
\* irrelevant returns a record, and that record is a row of the store.
C10_TextYieldsStoredRecord ==
    \A t \in Ctx :
        (Returned(t) /\ GotText(t) /\ ~MarkedIrrelevant(t)) =>
            /\ result[t] # None
            /\ rows_made[t] = 1
            /\ result[t].analysis_id \in 1..Len(event_analyses)
            /\ event_analyses[result[t].analysis_id].event_id = local[t].event_id

-----------------------------------------------------------------------------
(* _parse_analysis on texts that are not JSON *)

MaxLen == 4          \* tokens of a text handed to _parse_analysis
\* the most events of the date _get_events_with_analyses is given
MaxRows == 3

\* A text is a sequence of tokens: words, numbers, an opening brace and the
\* line break.
Tokens == {"impact", "bearish", "bullish", "7", "10", "{", "nl"}

\* the decimal digits of a token, as filter(str.isdigit, ...) keeps them
TokenDigits(tok) ==
    CASE tok = "7" -> <<7>>
      [] tok = "10" -> <<1, 0>>
      [] OTHER -> <<>>

RECURSIVE SplitLines(_)
\* analysis_text.split('\n')
SplitLines(toks) ==
    IF toks = <<>> THEN << <<>> >>
    ELSE LET rest == SplitLines(Tail(toks))
         IN  IF Head(toks) = "nl" THEN << <<>> >> \o rest
             ELSE << <<Head(toks)>> \o Head(rest) >> \o Tail(rest)

RECURSIVE LineDigits(_)
\* the digits of a line, in order
LineDigits(line) ==
    IF line = <<>> THEN <<>> ELSE TokenDigits(Head(line)) \o LineDigits(Tail(line))

\* what the fallback reads of a line: the words in it and its digits
LineOf(line) ==
    [words |-> {line[i] : i \in 1..Len(line)}, digits |-> LineDigits(line)]

RECURSIVE Strip(_)
\* str.strip() at the start of the text (the end does not matter here)
Strip(toks) ==
    IF toks # <<>> /\ Head(toks) = "nl" THEN Strip(Tail(toks)) ELSE toks

\* cleaned_text.startswith('{'): json.loads is tried, and raises since the
\* text is not JSON
StartsWithBrace(toks) == Strip(toks) # <<>> /\ Head(Strip(toks)) = "{"

\* the text as _parse_analysis takes it
TextContent(toks) ==
    LET split == SplitLines(toks)
    IN  [form |-> IF StartsWithBrace(toks) THEN "broken" ELSE "free",
         raw |-> toks,
         lines |-> [i \in 1..Len(split) |-> LineOf(split[i])],
         value |-> None]

Texts == UNION {[1..n -> Tokens] : n \in 1..MaxLen}

ParseInit ==
    /\ parse_in \in Texts
    /\ parse_out = None
    /\ config = None /\ events = StoredEvents /\ event_analyses = <<>>
    /\ PipelineAtRest
    /\ ChannelAtRest
    /\ AuxAtRest

\* structured_analysis = self._parse_analysis(analysis, event_data)
ParseText ==
    /\ parse_out = None
    /\ parse_out' = ParseAnalysis(TextContent(parse_in))
    /\ UNCHANGED <<pipeline_vars, channel_vars, run_vars, parse_in, aux_vars>>

ParseNext == ParseText

ParseSpec == ParseInit /\ [][ParseNext]_vars

\* word w occurs in the text
HasWord(toks, w) == \E i \in 1..Len(toks) : toks[i] = w

\* the text contains "impact 7"
HasImpact7(toks) ==
    \E i \in 1..(Len(toks) - 1) : toks[i] = "impact" /\ toks[i + 1] = "7"

-----------------------------------------------------------------------------
(* C11 *)

\* C11: for every text that is not JSON and contains "impact 7" and "bearish",
\* _parse_analysis returns impact_score 7 and sentiment_summary bearish.
C11_FallbackReadsImpactAndSentiment ==
    (parse_out # None /\ HasImpact7(parse_in) /\ HasWord(parse_in, "bearish")) =>
        /\ parse_out.impact_score = 7
        /\ parse_out.sentiment_summary = "bearish"

-----------------------------------------------------------------------------
(* One report-generation session: values *)

\* the uuid generate_report_route gives the session
session_id == "s1"

\* the date and the market of the request
report_date == 1
run_market == "FDAX"

\* the events of a date in the order the store returns them (by id)
RECURSIVE EventsForDate(_, _, _)
EventsForDate(rows, d, i) ==
    IF i > Len(rows) THEN <<>>
    ELSE (IF rows[i].date = d THEN <<i>> ELSE <<>>) \o EventsForDate(rows, d, i + 1)

\* a JSON answer whose score and sentiment are outside the documented ranges
OutOfRangeJson ==
    [is_relevant |-> TRUE, event_description |-> "desc",
     analysis_text |-> "analysis", impact_score |-> 15,
     sentiment_summary |-> "mixed", key_factors |-> <<>>,
     expert_commentary |-> "expert"]

\* the answers the external service gives during a run
RunReplies ==
    { [status |-> "transport_error", content |-> None],
      [status |-> "ok",
       content |-> [form |-> "json", raw |-> "json", lines |-> <<>>,
                    value |-> FullJson]],
      [status |-> "ok",
       content |-> [form |-> "json", raw |-> "json", lines |-> <<>>,
                    value |-> OutOfRangeJson]],
      [status |-> "ok",
       content |-> [form |-> "free", raw |-> "free",
                    lines |-> <<[words |-> {"impact", "bearish"}, digits |-> <<7>>]>>,
                    value |-> None]] }

\* analyze_economic_event with the importance filter in front of the lookup
\* of a stored analysis
RunAnalysisFilterFirst(rows, event_rows, cfg, key, event_id, market_symbol, reply) ==
    LET existing == ExistingAnalysis(rows, event_id, market_symbol)
        event_data == GetEventData(event_rows, event_id)
        structured == ParseAnalysis(reply.content)
        id == Len(rows) + 1
        Ended(r, res, how, posted) ==
            [rows |-> r, result |-> res, outcome |-> how, called |-> posted]
    IN  IF event_data = None
            THEN Ended(rows, None, "missing", FALSE)
        ELSE IF BelowThreshold(GetEventImportance(event_data.importance),
                               GetStarFilter(cfg))
            THEN Ended(rows, None, "filtered", FALSE)
        ELSE IF existing # None
            THEN Ended(rows, MemoResult(existing), "memoized", FALSE)
        ELSE IF key = ""
            THEN Ended(rows, None, "no_key", FALSE)
        ELSE IF reply.status # "ok"
            THEN Ended(rows, None, "call_failed", TRUE)
        ELSE IF ~IsRelevant(structured)
            THEN Ended(rows, None, "irrelevant", TRUE)
        ELSE IF CanSave(structured)
            THEN Ended(Append(rows, NewRow(id, event_id, market_symbol, structured)),
                       FreshResult(id, event_id, structured), "stored", TRUE)
        ELSE Ended(rows, FreshResult(NoId, event_id, structured), "unsaved", TRUE)

\* analyze_economic_event run to its end by one thread: the store afterwards,
\* the value returned, how the call ended and whether requests.post was issued
RunAnalysis(rows, event_rows, cfg, key, event_id, market_symbol, reply) ==
    LET existing == ExistingAnalysis(rows, event_id, market_symbol)
        event_data == GetEventData(event_rows, event_id)
        structured == ParseAnalysis(reply.content)
        id == Len(rows) + 1
        Ended(r, res, how, posted) ==
            [rows |-> r, result |-> res, outcome |-> how, called |-> posted]
    IN  IF existing # None
            THEN Ended(rows, MemoResult(existing), "memoized", FALSE)
        ELSE IF event_data = None
            THEN Ended(rows, None, "missing", FALSE)
        ELSE IF BelowThreshold(GetEventImportance(event_data.importance),
                               GetStarFilter(cfg))
            THEN Ended(rows, None, "filtered", FALSE)
        ELSE IF key = ""
            THEN Ended(rows, None, "no_key", FALSE)
        ELSE IF reply.status # "ok"
            THEN Ended(rows, None, "call_failed", TRUE)
        ELSE IF ~IsRelevant(structured)
            THEN Ended(rows, None, "irrelevant", TRUE)
        ELSE IF CanSave(structured)
            THEN Ended(Append(rows, NewRow(id, event_id, market_symbol, structured)),
                       FreshResult(id, event_id, structured), "stored", TRUE)
        ELSE Ended(rows, FreshResult(NoId, event_id, structured), "unsaved", TRUE)

\* a callback reporting the events analysed as a share of a hundred
AnalysisProgressOfHundred(current, total) == (current * 100) \div total

\* a callback reporting the share of the events analysed before this one
AnalysisProgressBefore(current, total) == 45 + (((current - 1) * 25) \div total)

\* int((current / total) * 25) added to 45 in analysis_progress
AnalysisProgress(current, total) == 45 + ((current * 25) \div total)

\* the queue of the session and the record of what was put, taken together
Chan == [queue |-> queue, published |-> published]

\* a channel without a buffer: a record is kept only while a stream is open
SentIfListening(ch, status, progress) ==
    LET rec == [seq |-> Len(ch.published) + 1, status |-> status,
                progress |-> progress]
    IN  IF session_id \in status_queues
        THEN [queue |-> IF sub_pc[1] = "reading" THEN Append(ch.queue, rec)
                        ELSE ch.queue,
              published |-> Append(ch.published, rec)]
        ELSE ch

\* _send_status: under status_locks, the record is put if the session has a queue
Sent(ch, status, progress) ==
    LET rec == [seq |-> Len(ch.published) + 1, status |-> status,
                progress |-> progress]
    IN  IF session_id \in status_queues
        THEN [queue |-> Append(ch.queue, rec),
              published |-> Append(ch.published, rec)]
        ELSE ch

\* _send_status with data: the `complete` record carries the report's id
SentComplete(ch, report_id) ==
    LET rec == [seq |-> Len(ch.published) + 1, status |-> "complete",
                progress |-> 100, report_id |-> report_id]
    IN  IF session_id \in status_queues
        THEN [queue |-> Append(ch.queue, rec),
              published |-> Append(ch.published, rec)]
        ELSE ch

SetChan(ch) == queue' = ch.queue /\ published' = ch.published

-----------------------------------------------------------------------------
(* One report-generation session: the state before the request *)

\* an analysis of event 2 for the market, stored by an earlier run
EarlierRow == NewRow(1, 2, run_market, PartialJson)

\* the configuration and the Analysis Store a run can find
RunScenarios ==
    { [config |-> [llm_api_key |-> "", star_filter |-> 1], rows |-> <<>>],
      [config |-> [llm_api_key |-> "sk-key", star_filter |-> 1], rows |-> <<>>],
      [config |-> [llm_api_key |-> "sk-key", star_filter |-> 2], rows |-> <<>>],
      [config |-> [llm_api_key |-> "sk-key", star_filter |-> 2],
       rows |-> <<EarlierRow>>] }

\* locals of the background thread before it has set any
NoRun ==
    [api_key |-> "", model |-> "", events |-> <<>>, total_events |-> 0,
     idx |-> 0, analyses |-> <<>>, report |-> "", counted |-> FALSE]

RunInit ==
    /\ \E sc \in RunScenarios : config = sc.config /\ event_analyses = sc.rows
    /\ events \in {StoredEvents, <<>>}
    /\ PipelineAtRest
    /\ ChannelAtRest
    /\ ParserAtRest
    /\ AuxAtRest

limiter_state == <<rate_limit_lock, since_last_call>>
pipeline_rest == <<lock_holder, pc, api_key, my_lock, sleep_left, local, result,
                   calls_done, ext_calls, rows_made, stamped, prev, since_start>>
sub_vars == <<sub_pc, rx, cleanup_pc, wait_count>>

-----------------------------------------------------------------------------
(* generate_report_route and _generate_report_async *)

\* the queue of the session is registered and the background thread started
GenerateReportRoute ==
    /\ run_pc = "none"
    /\ status_queues' = status_queues \cup {session_id}
    /\ run' = NoRun
    /\ run_pc' = "start"
    /\ UNCHANGED <<db_vars, limiter_state, pipeline_rest, queue, published,
                   trace, sub_vars, parse_vars, aux_vars>>

\* 'Starting report generation...' and 'Scraping economic events...'
SendStart ==
    /\ run_pc = "start"
    /\ SetChan(Sent(Sent(Chan, "running", 0), "running", 10))
    /\ run_pc' = "scrape"
    /\ UNCHANGED <<db_vars, limiter_state, pipeline_rest, status_queues, run,
                   trace, sub_vars, parse_vars, aux_vars>>

\* scrape_and_save_events: nothing is scraped when the date has events; else
\* the scrape stores the events or fails and stores none; then the count is
\* reported
Scrape ==
    /\ run_pc = "scrape"
    /\ IF EventsForDate(events, report_date, 1) # <<>>
       THEN UNCHANGED events
       ELSE \E scraped \in BOOLEAN :
                events' = IF scraped THEN StoredEvents ELSE events
    /\ SetChan(Sent(Chan, "running", 30))
    /\ run_pc' = "count"
    /\ UNCHANGED <<config, event_analyses, limiter_state, pipeline_rest,
                   status_queues, run, trace, sub_vars, parse_vars, aux_vars>>

\* 'Analyzing events ...', the count query, 'Starting analysis of n events...';
\* the query is outside any handler of its own, so a database error goes to
\* the except block of _generate_report_async
CountEvents ==
    /\ run_pc = "count"
    /\ \E db_ok \in BOOLEAN :
        IF db_ok
        THEN /\ SetChan(Sent(Sent(Chan, "running", 40), "running", 45))
             /\ run' = [run EXCEPT !.total_events =
                           Len(EventsForDate(events, report_date, 1)),
                                   !.counted = TRUE]
             /\ run_pc' = "batch_start"
        ELSE /\ SetChan(Sent(Chan, "running", 40))
             /\ run_pc' = "except"
             /\ UNCHANGED run
    /\ UNCHANGED <<db_vars, limiter_state, pipeline_rest, status_queues,
                   trace, sub_vars, parse_vars, aux_vars>>

\* an analyzer that makes the default Config row when it finds none
StartBatchCreatesConfig ==
    /\ run_pc = "batch_start"
    /\ rate_limit_lock' = IF rate_limit_lock = NoLock THEN 1 ELSE rate_limit_lock
    /\ config' = IF config = None
                 THEN [llm_api_key |-> "", star_filter |-> 1] ELSE config
    /\ LET todays == EventsForDate(events, report_date, 1)
       IN  /\ run' = [run EXCEPT !.api_key = GetApiKey(config),
                                 !.model = GetLlmModel(config),
                                 !.events = todays,
                                 !.total_events = Len(todays),
                                 !.idx = 0,
                                 !.analyses = <<>>]
           /\ run_pc' = IF todays = <<>> THEN "analyzed" ELSE "progress"
    /\ UNCHANGED <<events, event_analyses, since_last_call, pipeline_rest,
                   status_queues, queue, published, trace, sub_vars,
                   parse_vars, aux_vars>>

\* analyze_economic_events: LLMAnalyzer() reads the api key and creates the
\* class-level lock if there is none; analyze_events_for_date reads the events
StartBatch ==
    /\ run_pc = "batch_start"
    /\ rate_limit_lock' = IF rate_limit_lock = NoLock THEN 1 ELSE rate_limit_lock
    /\ LET todays == EventsForDate(events, report_date, 1)
       IN  /\ run' = [run EXCEPT !.api_key = GetApiKey(config),
                                 !.model = GetLlmModel(config),
                                 !.events = todays,
                                 !.total_events = Len(todays),
                                 !.idx = 0,
                                 !.analyses = <<>>]
           /\ run_pc' = IF todays = <<>> THEN "analyzed" ELSE "progress"
    /\ UNCHANGED <<db_vars, since_last_call, pipeline_rest, status_queues,
                   queue, published, trace, sub_vars, parse_vars, aux_vars>>

\* enumerate(events) without its start value: positions counted from 0
PositionFromZero(i) == i - 1

\* enumerate(events, 1): the position reported for the i-th event
Position(i) == i

\* the loop takes the next event and reports it: progress_callback(idx,
\* total_events, event.event_name), which is analysis_progress
ProgressCallback ==
    /\ run_pc = "progress"
    /\ LET i == run.idx + 1
           idx == Position(i)
           total == run.total_events
       IN  /\ run' = [run EXCEPT !.idx = i]
           /\ SetChan(Sent(Chan, "running", AnalysisProgress(idx, total)))
           /\ trace' = Append(trace,
                  [kind |-> "progress", idx |-> idx, total |-> total,
                   event_name |-> events[run.events[i]].event_name])
    /\ run_pc' = "analyze"
    /\ UNCHANGED <<db_vars, limiter_state, pipeline_rest, status_queues,
                   sub_vars, parse_vars, aux_vars>>

\* the loop appending whatever the call returned
KeptAlways(analyses, res) == Append(analyses, res)

\* the impact score in a returned record, new or stored
ScoreOf(res) ==
    IF "analysis" \in DOMAIN res THEN res.analysis.impact_score
    ELSE res.impact_score

\* the loop keeping its list ordered by score, the highest first
KeptByScore(analyses, res) ==
    IF res = None THEN analyses
    ELSE IF analyses # <<>> /\ ScoreOf(res) > ScoreOf(analyses[1])
         THEN <<res>> \o analyses
         ELSE Append(analyses, res)

\* the value the loop keeps of a call's result: `if analysis:` appends it
Kept(analyses, res) == IF res # None THEN Append(analyses, res) ELSE analyses

\* analysis = self.analyze_economic_event(event.id, market_symbol), appended
\* when it is not None; after the last event the list is returned
AnalyzeOne(reply) ==
    /\ run_pc = "analyze"
    /\ LET event_id == run.events[run.idx]
           a == RunAnalysis(event_analyses, events, config, run.api_key,
                            event_id, run_market, reply)
       IN  /\ event_analyses' = a.rows
           /\ since_last_call' =
                  IF ~a.called THEN since_last_call
                  ELSE IF BodyParsed(reply) THEN 0 ELSE min_request_interval
           /\ run' = [run EXCEPT !.analyses = Kept(run.analyses, a.result)]
           /\ trace' = Append(trace,
                  [kind |-> "analysis", idx |-> run.idx, event_id |-> event_id,
                   outcome |-> a.outcome, called |-> a.called,
                   result |-> a.result,
                   reply |-> IF a.called THEN reply ELSE None,
                   stored_before |->
                       ExistingAnalysis(event_analyses, event_id, run_market)
                           # None,
                   api_key |-> run.api_key, model |-> run.model,
                   star_filter |-> GetStarFilter(config)])
    /\ run_pc' = IF run.idx = run.total_events THEN "analyzed" ELSE "progress"
    /\ UNCHANGED <<config, events, rate_limit_lock, pipeline_rest,
                   status_queues, queue, published, sub_vars, parse_vars, aux_vars>>

\* 'Analyzed n relevant events ...' and 'Generating HTML report...'
SendAnalyzed ==
    /\ run_pc = "analyzed"
    /\ SetChan(Sent(Sent(Chan, "running", 70), "running", 80))
    /\ run_pc' = "generate"
    /\ UNCHANGED <<db_vars, limiter_state, pipeline_rest, status_queues, run,
                   trace, sub_vars, parse_vars, aux_vars>>

\* what generate_report can return: None (market not found, or an exception
\* inside), a report whose row could not be saved (report_id None), a report
\* whose row was saved
ReportOutcomes == {"none", "unsaved", "saved"}

\* report = generate_report(...) and the terminal record that follows it
GenerateReport(outcome) ==
    /\ run_pc = "generate"
    /\ reports' = IF outcome = "saved"
                  THEN Append(reports, [id |-> Len(reports) + 1,
                                        market |-> run_market,
                                        date |-> report_date])
                  ELSE reports
    /\ IF outcome = "none"
       THEN SetChan(Sent(Chan, "error", 0))
       ELSE SetChan(SentComplete(Sent(Chan, "running", 90),
                                 IF outcome = "saved" THEN Len(reports) + 1
                                 ELSE NoId))
    /\ run' = [run EXCEPT !.report = outcome]
    /\ run_pc' = "finally"
    /\ UNCHANGED <<db_vars, limiter_state, pipeline_rest, status_queues,
                   trace, sub_vars, parse_vars, admin_vars, req, scrapes,
                   report_vars>>

\* the except block only logging the exception
HandleExceptionSilent ==
    /\ run_pc = "except"
    /\ run_pc' = "finally"
    /\ UNCHANGED <<db_vars, limiter_state, pipeline_rest, channel_vars, run,
                   trace, parse_vars, aux_vars>>

\* except Exception: the error record
HandleException ==
    /\ run_pc = "except"
    /\ SetChan(Sent(Chan, "error", 0))
    /\ run_pc' = "finally"
    /\ UNCHANGED <<db_vars, limiter_state, pipeline_rest, status_queues, run,
                   trace, sub_vars, parse_vars, aux_vars>>

\* the finally block waiting for the queue to be read empty
FinallyJoin ==
    /\ run_pc = "finally"
    /\ queue = <<>>
    /\ run_pc' = "end"
    /\ UNCHANGED <<db_vars, limiter_state, pipeline_rest, channel_vars, run,
                   trace, parse_vars, aux_vars>>

\* finally: time.sleep(2), and the thread ends
Finally ==
    /\ run_pc = "finally"
    /\ run_pc' = "end"
    /\ UNCHANGED <<db_vars, limiter_state, pipeline_rest, channel_vars, run,
                   trace, parse_vars, aux_vars>>

-----------------------------------------------------------------------------
(* status_stream *)

\* the record the stream makes up itself: 'Session not found', or the text of
\* an exception
StreamError == [seq |-> 0, status |-> "error", progress |-> 0]

Terminal(rec) == rec.status \in {"complete", "error"}

\* Subscribers are interchangeable: the first to attach is taken to be 1.
MayAttach(u) == u = 1 \/ sub_pc[1] # "detached"

\* max_wait = 10 rounds of the wait loop, each with time.sleep(0.1): the
\* sleep in tenths of a second
max_wait == 10
sleep_tenths == 1

\* a client that was given the session id opens the stream; the wait loop is
\* not entered when the session has a queue, and starts counting when it has
\* none
Attach(u) ==
    /\ sub_pc[u] = "detached"
    /\ run_pc # "none"
    /\ MayAttach(u)
    /\ sub_pc' = [sub_pc EXCEPT ![u] =
                     IF session_id \in status_queues THEN "reading" ELSE "waiting"]
    /\ wait_count' = [wait_count EXCEPT ![u] = 0]
    /\ UNCHANGED <<pipeline_vars, status_queues, queue, published, rx,
                   cleanup_pc, run_vars, parse_vars, aux_vars>>

\* one round of the wait loop: time.sleep(0.1) and wait_count += 1
Poll(u) ==
    /\ sub_pc[u] = "waiting"
    /\ session_id \notin status_queues
    /\ wait_count[u] < max_wait
    /\ wait_count' = [wait_count EXCEPT ![u] = @ + 1]
    /\ UNCHANGED <<pipeline_vars, status_queues, queue, published, sub_pc, rx,
                   cleanup_pc, run_vars, parse_vars, aux_vars>>

\* the wait loop is left: the stream goes on to read when the session has a
\* queue now, and ends with 'Session not found' when it has none
WaitOver(u) ==
    /\ sub_pc[u] = "waiting"
    /\ session_id \in status_queues \/ wait_count[u] >= max_wait
    /\ IF session_id \in status_queues
       THEN /\ sub_pc' = [sub_pc EXCEPT ![u] = "reading"]
            /\ UNCHANGED rx
       ELSE /\ sub_pc' = [sub_pc EXCEPT ![u] = "not_found"]
            /\ rx' = [rx EXCEPT ![u] = Append(@, StreamError)]
    /\ UNCHANGED <<pipeline_vars, status_queues, queue, published, cleanup_pc,
                   wait_count, run_vars, parse_vars, aux_vars>>

\* Queue.get() taking the newest record instead of the oldest
TakeNewest(q) == [item |-> q[Len(q)], rest |-> SubSeq(q, 1, Len(q) - 1)]

\* Queue.get(): the oldest record leaves the queue
Take(q) == [item |-> Head(q), rest |-> Tail(q)]

\* one round of the loop with a record to read: status_queues[session_id]
\* .get(timeout=30), the yield, and after a terminal record the start of the
\* cleanup thread; status_queues[session_id] raises KeyError once the session's
\* queue is gone, which ends the stream with an error record
StreamGet(u) ==
    /\ sub_pc[u] = "reading"
    /\ IF session_id \notin status_queues
       THEN /\ rx' = [rx EXCEPT ![u] = Append(@, StreamError)]
            /\ sub_pc' = [sub_pc EXCEPT ![u] = "failed"]
            /\ UNCHANGED <<queue, cleanup_pc>>
       ELSE /\ queue # <<>>
            /\ LET got == Take(queue)
               IN  /\ queue' = got.rest
                   /\ rx' = [rx EXCEPT ![u] = Append(@, got.item)]
                   /\ IF Terminal(got.item)
                      THEN /\ sub_pc' = [sub_pc EXCEPT ![u] = "done"]
                           /\ cleanup_pc' = [cleanup_pc EXCEPT ![u] = "sleeping"]
                      ELSE UNCHANGED <<sub_pc, cleanup_pc>>
    /\ UNCHANGED <<pipeline_vars, status_queues, published, wait_count,
                   run_vars, parse_vars, aux_vars>>

\* one round of the loop without a record: queue.Empty after the timeout, and
\* the keep-alive comment, which is not a record
KeepAlive(u) ==
    /\ sub_pc[u] = "reading"
    /\ session_id \in status_queues
    /\ queue = <<>>
    /\ UNCHANGED vars

\* cleanup(): after time.sleep(5) the session's queue is deleted, if there
Cleanup(u) ==
    /\ cleanup_pc[u] = "sleeping"
    /\ status_queues' = status_queues \ {session_id}
    /\ cleanup_pc' = [cleanup_pc EXCEPT ![u] = "done"]
    /\ UNCHANGED <<pipeline_vars, queue, published, sub_pc, rx, wait_count,
                   run_vars, parse_vars, aux_vars>>

-----------------------------------------------------------------------------

\* the steps of the background thread
RunThread ==
    \/ SendStart
    \/ Scrape
    \/ CountEvents
    \/ StartBatch
    \/ ProgressCallback
    \/ \E reply \in RunReplies : AnalyzeOne(reply)
    \/ SendAnalyzed
    \/ \E outcome \in ReportOutcomes : GenerateReport(outcome)
    \/ HandleException
    \/ Finally

RunNext ==
    \/ GenerateReportRoute
    \/ RunThread
    \/ \E u \in Subscribers : Attach(u)
    \/ \E u \in Subscribers : Poll(u)
    \/ \E u \in Subscribers : WaitOver(u)
    \/ \E u \in Subscribers : StreamGet(u)
    \/ \E u \in Subscribers : KeepAlive(u)
    \/ \E u \in Subscribers : Cleanup(u)

RunSpec == RunInit /\ [][RunNext]_vars

\* The session with the one reader a run has in practice.  The background
\* thread, the generator of an open stream and a started cleanup thread are
\* threads the interpreter keeps scheduling; nothing makes a client request a
\* report or open the stream.  The sole reader finds the queue when it opens
\* the stream, since only its own cleanup removes it: its wait loop has no
\* round.
OneReaderNext ==
    \/ GenerateReportRoute
    \/ RunThread
    \/ Attach(1)
    \/ StreamGet(1)
    \/ KeepAlive(1)
    \/ Cleanup(1)

FairRunSpec ==
    /\ RunInit
    /\ [][OneReaderNext]_vars
    /\ WF_vars(RunThread)
    /\ WF_vars(StreamGet(1))
    /\ WF_vars(Cleanup(1))

-----------------------------------------------------------------------------
(* Vocabulary of the properties of a session *)

\* the positions in published of the terminal records
TerminalIndices == {i \in 1..Len(published) : Terminal(published[i])}

\* analyze_events_for_date has returned its list
BatchReturned ==
    /\ run_pc \in {"analyzed", "generate", "finally", "end"}
    /\ run.events # <<>>

\* the entries of the trace of one kind for position i
Entries(kind, i) ==
    {k \in 1..Len(trace) : trace[k].kind = kind /\ trace[k].idx = i}

\* the engine calls that produced an analysis: a stored one or a new one
Succeeded(e) == e.kind = "analysis" /\ e.outcome \in {"memoized", "stored"}

\* the engine call for position i ended as `how`
EndedAs(i, how) ==
    \E k \in Entries("analysis", i) : trace[k].outcome = how

\* subscriber u's stream has ended
StreamEnded(u) == sub_pc[u] \in {"done", "failed", "not_found"}

\* the seq numbers of a stream grow, and each record is the published one
InPublishOrder(stream) ==
    /\ \A i \in 1..Len(stream) :
           /\ stream[i].seq \in 1..Len(published)
           /\ stream[i] = published[stream[i].seq]
    /\ \A i \in 1..Len(stream), j \in 1..Len(stream) :
           i < j => stream[i].seq < stream[j].seq

-----------------------------------------------------------------------------
(* C12 *)

\* C12: every row of the Analysis Store has an impact_score in 1..10 and a
\* sentiment_summary that is bullish, bearish or neutral.
C12_StoredScoreAndSentimentInRange ==
    \A i \in 1..Len(event_analyses) :
        /\ event_analyses[i].impact_score \in 1..10
        /\ event_analyses[i].sentiment_summary \in {"bullish", "bearish", "neutral"}

-----------------------------------------------------------------------------
(* C13 *)

-----------------------------------------------------------------------------
(* C14 *)

\* C14: without an API credential a run makes no per-event iteration and no
\* external call and never publishes `complete`.
C14_NoCredentialFailsFast ==
    GetApiKey(config) = "" =>
        /\ \A k \in 1..Len(trace) : trace[k].kind # "analysis"
        /\ \A i \in 1..Len(published) : published[i].status # "complete"

-----------------------------------------------------------------------------
(* C15 *)

\* C15: a run publishes no terminal record before its last step, exactly one
\* by then, and the terminal record is the last record published.
C15_ExactlyOneTerminalRecord ==
    /\ Cardinality(TerminalIndices) <= 1
    /\ \A i \in TerminalIndices : i = Len(published)
    /\ run_pc \in {"finally", "end"} => Cardinality(TerminalIndices) = 1
    /\ run_pc \notin {"finally", "end"} => TerminalIndices = {}

\* a run that ended through its except block: four running records, then error
C15_Witness ==
    /\ run_pc = "end"
    /\ Len(published) = 5
    /\ published[5].status = "error"
    /\ \A i \in 1..4 : published[i].status = "running"

-----------------------------------------------------------------------------
(* C16 *)

\* C16: once the terminal record is published, the session's queue is
\* eventually removed from status_queues.
C16_QueueEventuallyRemoved ==
    (TerminalIndices # {}) ~> (session_id \notin status_queues)

-----------------------------------------------------------------------------
(* C17 *)

\* C17: when two subscribers read the stream of one session, the stream of
\* each, once ended, carries published records in publish order and ends with
\* the run's terminal record, its only terminal record.
C17_EachOfTwoStreamsEndsWithOutcome ==
    (\A v \in Subscribers : sub_pc[v] \in {"reading", "done", "failed"}) =>
        \A u \in Subscribers :
            StreamEnded(u) =>
                /\ InPublishOrder(rx[u])
                /\ rx[u] # <<>>
                /\ rx[u][Len(rx[u])] = published[Len(published)]
                /\ \A i \in 1..(Len(rx[u]) - 1) : ~Terminal(rx[u][i])

-----------------------------------------------------------------------------
(* C18 *)

\* C18: the stream of a sole subscriber carries published records in publish
\* order, none of them twice.
C18_SoleSubscriberInPublishOrder ==
    sub_pc[2] = "detached" => InPublishOrder(rx[1])

\* the sole subscriber has read a whole run of ten records or more
C18_Witness ==
    /\ sub_pc[2] = "detached" /\ sub_pc[1] = "done"
    /\ Len(rx[1]) >= 10
    /\ rx[1] = published

-----------------------------------------------------------------------------
(* C19 *)

\* C19: the background thread can always take its next step, whatever the
\* subscribers do, and a started run reaches its end.
C19_RunTerminates ==
    /\ [](run_pc \notin {"none", "end"} => ENABLED RunThread)
    /\ (run_pc = "start") ~> (run_pc = "end")

\* a run has ended with its records unread and no subscriber attached
C19_Witness ==
    /\ run_pc = "end"
    /\ sub_pc[1] = "detached"
    /\ Len(queue) = Len(published) /\ queue # <<>>

-----------------------------------------------------------------------------
(* C20 *)

\* C20: the trace of a batch alternates callback and engine call for the
\* positions 1, 2, ..., total in this order; the callback of position i carries
\* (i, total, name of the i-th event) and the engine call that follows it is
\* the one for the i-th event; a returned batch has done so for every position.
C20_CallbackBeforeEachEngineCall ==
    /\ \A k \in 1..Len(trace) :
           LET i == (k + 1) \div 2
           IN  IF k % 2 = 1
               THEN /\ trace[k].kind = "progress"
                    /\ trace[k].idx = i
                    /\ trace[k].total = Len(run.events)
                    /\ trace[k].event_name = events[run.events[i]].event_name
               ELSE /\ trace[k].kind = "analysis"
                    /\ trace[k].idx = i
                    /\ trace[k].event_id = run.events[i]
    /\ BatchReturned => Len(trace) = 2 * Len(run.events)

\* a batch has returned whose first event was under the star filter and whose
\* second had a stored analysis
C20_Witness ==
    /\ BatchReturned
    /\ EndedAs(1, "filtered") /\ EndedAs(2, "memoized")
    /\ Len(trace) = 4

-----------------------------------------------------------------------------
(* C21 *)

\* an engine call that returned a record
NonNull(e) == e.kind = "analysis" /\ e.result # None

\* C21: the list analyze_events_for_date returns holds the records the engine
\* calls returned, each once, in the order of the calls, which is the order of
\* the events in the store; it holds no more records than there are events.
C21_ListInIterationOrder ==
    BatchReturned =>
        LET kept == SelectSeq(trace, NonNull)
        IN  /\ Len(run.analyses) = Len(kept)
            /\ Len(run.analyses) <= Len(run.events)
            /\ \A j \in 1..Len(kept) :
                   /\ run.analyses[j] = kept[j].result
                   /\ kept[j].event_id = run.events[kept[j].idx]
            /\ \A i \in 1..Len(kept), j \in 1..Len(kept) :
                   i < j => kept[i].event_id < kept[j].event_id

\* the returned list holds the record of the first event, with score 7, in
\* front of the record of the second, with score 8
C21_Witness ==
    /\ BatchReturned
    /\ Len(run.analyses) = 2
    /\ run.analyses[1].event_id = 1 /\ ScoreOf(run.analyses[1]) = 7
    /\ run.analyses[2].event_id = 2 /\ ScoreOf(run.analyses[2]) = 8

-----------------------------------------------------------------------------
(* save_config and a run *)

\* an analysis of the Low event for the market, stored by an earlier run
LowRow == NewRow(1, 1, run_market, PartialJson)

\* the row init_db makes: no key, star filter 1
DefaultConfig == [llm_api_key |-> "", star_filter |-> 1]

\* the fields of the posted form the pipeline has a use for, as save_config
\* holds them after strip() and int()
Forms ==
    [llm_api_key : {"", "sk-key"}, llm_model : {"gpt-4o-mini", "gpt-4o"},
     star_filter : {1, 3}]

\* save_config: with a row, the columns of the row are assigned and committed;
\* llm_model is no column of Config, so the assignment sets an attribute of the
\* Python object that the commit does not write.  Without a row, Config(...)
\* is called with the keyword llm_model, which raises TypeError, and the
\* handler stores nothing.
SaveConfig(form) ==
    /\ config' = IF config = None THEN config
                 ELSE [config EXCEPT !.llm_api_key = form.llm_api_key,
                                     !.star_filter = form.star_filter]
    /\ saved_form' = [form |-> form, stored |-> config # None,
                      before_run |-> run_pc = "none"]
    /\ UNCHANGED <<events, event_analyses, limiter_vars, pc, api_key, call_vars,
                   start_vars, channel_vars, run_vars, parse_vars, twin_vars,
                   report_vars>>

AdminInit ==
    /\ config \in {None, DefaultConfig}
    /\ events \in {StoredEvents, <<>>}
    /\ event_analyses \in {<<>>, <<LowRow>>}
    /\ PipelineAtRest
    /\ ChannelAtRest
    /\ ParserAtRest
    /\ AuxAtRest

AdminNext ==
    \/ \E form \in Forms : SaveConfig(form)
    \/ GenerateReportRoute
    \/ RunThread

AdminSpec == AdminInit /\ [][AdminNext]_vars

\* the last save_config stored its form, and no run had been requested then
SavedBeforeRun ==
    /\ saved_form # None
    /\ saved_form.stored
    /\ saved_form.before_run

\* the engine call made its threshold check
Thresholded(e) == e.kind = "analysis" /\ e.outcome \notin {"memoized", "missing"}

\* C23: after save_config stored a key, a model and a star filter, a run
\* started afterwards makes its external calls with that key and that model
\* and its threshold checks with that star filter.
C23_RunUsesSavedValues ==
    SavedBeforeRun =>
        \A k \in 1..Len(trace) :
            /\ (trace[k].kind = "analysis" /\ trace[k].called) =>
                   /\ trace[k].api_key = saved_form.form.llm_api_key
                   /\ trace[k].model = saved_form.form.llm_model
            /\ Thresholded(trace[k]) =>
                   trace[k].star_filter = saved_form.form.star_filter

\* C24: the Config row changes in a step only when the step is save_config:
\* no step of the background thread, from the scrape to the terminal record,
\* writes it.
C24_OnlySaveConfigWrites ==
    [][config' # config => \E form \in Forms : SaveConfig(form)]_vars

\* a run went through its engine calls and its report after a save, and the
\* row still holds what the save put there
C24_Witness ==
    /\ SavedBeforeRun
    /\ run_pc = "end"
    /\ \E k \in 1..Len(trace) : trace[k].kind = "analysis" /\ trace[k].called
    /\ run.report = "saved"
    /\ config = [llm_api_key |-> "sk-key", star_filter |-> 3]

-----------------------------------------------------------------------------
(* A run over one stored event *)

\* the store with one event of importance High for the date
SingleEvent ==
    (1 :> [date |-> 1, importance |-> "High", event_name |-> "CPI Release"])

\* the external service's answer: relevant, impact_score 8, bullish
FullReply ==
    [status |-> "ok",
     content |-> [form |-> "json", raw |-> "json", lines |-> <<>>,
                  value |-> FullJson]]

ScenarioInit ==
    /\ config \in { [llm_api_key |-> "sk-key", star_filter |-> 1],
                    [llm_api_key |-> "", star_filter |-> 1],
                    [llm_api_key |-> "sk-key", star_filter |-> 3] }
    /\ events = SingleEvent
    /\ event_analyses = <<>>
    /\ PipelineAtRest
    /\ ChannelAtRest
    /\ ParserAtRest
    /\ AuxAtRest

ScenarioSpec == ScenarioInit /\ [][OneReaderNext]_vars

\* the run is over; it found the one event, star filter 1 and a key, the
\* service answered with FullReply, and neither the count query nor the report
\* generation failed
ScenarioRan ==
    /\ run_pc = "end"
    /\ events = SingleEvent
    /\ run.counted
    /\ run.report # "none"
    /\ \E k \in 1..Len(trace) :
           /\ trace[k].kind = "analysis"
           /\ trace[k].api_key # ""
           /\ trace[k].star_filter = 1
           /\ trace[k].reply = FullReply

\* status and progress of the records published, in order
Published == [i \in 1..Len(published) |->
                 <<published[i].status, published[i].progress>>]

\* C25: with one stored event of importance High, star filter 1, a key, the
\* market present and the relevant answer with impact_score 8 and sentiment
\* bullish, a run whose database queries and report generation succeed stores
\* exactly one analysis, with impact_score 8 and sentiment bullish, and
\* publishes the progress record of event 1/1, at 70 percent, before its one
\* terminal record, which is `complete`.
C25_OneEventScenario ==
    ScenarioRan =>
        /\ Len(event_analyses) = 1
        /\ event_analyses[1].event_id = 1
        /\ event_analyses[1].market_symbol = run_market
        /\ event_analyses[1].impact_score = 8
        /\ event_analyses[1].sentiment_summary = "bullish"
        /\ \E k \in 1..Len(trace) :
               trace[k] = [kind |-> "progress", idx |-> 1, total |-> 1,
                           event_name |-> "CPI Release"]
        /\ Published =
               << <<"running", 0>>, <<"running", 10>>, <<"running", 30>>,
                  <<"running", 40>>, <<"running", 45>>, <<"running", 70>>,
                  <<"running", 70>>, <<"running", 80>>, <<"running", 90>>,
                  <<"complete", 100>> >>

\* such a run is over, and the subscriber has read its `complete` record
C25_Witness ==
    /\ ScenarioRan
    /\ sub_pc[1] = "done"
    /\ rx[1] # <<>>
    /\ rx[1][Len(rx[1])].status = "complete"

-----------------------------------------------------------------------------
(* C26 *)

\* stream is the first part of what was published
IsPrefix(stream) ==
    /\ Len(stream) <= Len(published)
    /\ stream = SubSeq(published, 1, Len(stream))

\* C26: a sole subscriber, whenever it opens the stream, is given the records
\* of the run from the first one on with none left out, and its stream comes to
\* its end with every published record read.
C26_SoleSubscriberMissesNothing ==
    /\ [](IsPrefix(rx[1]))
    /\ (sub_pc[1] = "reading") ~> (sub_pc[1] = "done" /\ rx[1] = published)

\* the subscriber opened the stream after the run had published all its ten
\* records, the terminal one included, and the queue holds them all
C26_Witness ==
    /\ sub_pc[1] = "reading"
    /\ rx[1] = <<>>
    /\ run_pc = "end"
    /\ Len(published) = 10
    /\ Terminal(published[10])
    /\ queue = published

-----------------------------------------------------------------------------
(* C27 *)

\* C27: a stream that ends with 'Session not found' has waited ten seconds,
\* 100 tenths of a second, for the queue, and carries the one error record.
C27_NotFoundAfterTenSeconds ==
    \A u \in Subscribers :
        sub_pc[u] = "not_found" =>
            /\ rx[u] = <<StreamError>>
            /\ wait_count[u] * sleep_tenths >= 100

-----------------------------------------------------------------------------
(* Two requests for one market and date: the route's check, the scrape, *)
(* save_events_to_db and _save_report_to_db                              *)

\* EconomicEvent.time of an event listed with a time
HalfPastEight == [hour |-> 8, minute |-> 30]

\* what the page gives for the date: nothing (or the scrape failed), one
\* event, or a list in which one event without a time appears twice
ScrapedBatches ==
    { <<>>,
      << [date |-> report_date, event_name |-> "CPI Release",
          time |-> HalfPastEight, importance |-> "High", actual |-> "3.1"] >>,
      << [date |-> report_date, event_name |-> "Speech", time |-> None,
          importance |-> "Medium", actual |-> ""],
         [date |-> report_date, event_name |-> "Speech", time |-> None,
          importance |-> "Low", actual |-> ""] >> }

\* a row stored by an earlier run, before the actual value was out
PriorEvent ==
    [date |-> report_date, event_name |-> "CPI Release", time |-> HalfPastEight,
     importance |-> "High", actual |-> ""]

\* the three columns save_events_to_db filters on
Identity(e) == <<e.date, e.event_name, e.time>>

\* query(EconomicEvent).filter(date, event_name, time).first() on the rows the
\* database holds: with autoflush off, a row added to the session and not yet
\* committed is not among them.  0 stands for None.
ExistingEvent(rows, e) ==
    LET found == {i \in 1..Len(rows) : Identity(rows[i]) = Identity(e)}
    IN  IF found = {} THEN 0 ELSE CHOOSE i \in found : \A j \in found : i <= j

\* the loop of save_events_to_db: for each entry, the row found or 0
SavePlan(rows, batch) ==
    [k \in 1..Len(batch) |-> ExistingEvent(rows, batch[k])]

\* session.commit(): the found rows are overwritten, the new ones inserted
RECURSIVE Committed(_, _, _, _)
Committed(rows, batch, plan, k) ==
    IF k > Len(batch) THEN rows
    ELSE Committed(IF plan[k] # 0 /\ plan[k] <= Len(rows)
                   THEN [rows EXCEPT ![plan[k]] = batch[k]]
                   ELSE Append(rows, batch[k]),
                   batch, plan, k + 1)

\* the Report row of a market and date the route's query finds, or 0
ExistingReport(rows, market_symbol, d) ==
    LET found == {i \in 1..Len(rows) :
                     rows[i].market = market_symbol /\ rows[i].date = d}
    IN  IF found = {} THEN 0 ELSE CHOOSE i \in found : \A j \in found : i <= j

twin_rest == <<config, event_analyses, limiter_vars, pc, api_key, call_vars,
               start_vars, channel_vars, run_vars, parse_vars, admin_vars,
               report_vars>>

\* generate_report_route: the existing report's id is returned, or the
\* background thread is started
RouteRequest(t) ==
    /\ req[t].pc = "idle"
    /\ LET existing == ExistingReport(reports, run_market, report_date)
       IN  req' = [req EXCEPT ![t] =
                      IF existing # 0
                      THEN [@ EXCEPT !.pc = "exists",
                                     !.report_id = reports[existing].id]
                      ELSE [@ EXCEPT !.pc = "started"]]
    /\ UNCHANGED <<events, reports, scrapes, twin_rest>>

\* get_economic_events up to its early return: no scrape when the date has
\* events, and save_events_to_db([]) returns 0
EventsExistForDate(t) ==
    /\ req[t].pc = "started"
    /\ req' = [req EXCEPT ![t].pc =
                  IF EventsForDate(events, report_date, 1) # <<>>
                  THEN "report" ELSE "scraping"]
    /\ UNCHANGED <<events, reports, scrapes, twin_rest>>

\* the page is loaded and parsed
ScrapePage(t) ==
    /\ req[t].pc = "scraping"
    /\ \E batch \in ScrapedBatches :
           req' = [req EXCEPT ![t].batch = batch,
                              ![t].pc = IF batch = <<>> THEN "report" ELSE "save"]
    /\ scrapes' = scrapes + 1
    /\ UNCHANGED <<events, reports, twin_rest>>

\* save_events_to_db, the loop with its queries
SaveEventsQuery(t) ==
    /\ req[t].pc = "save"
    /\ req' = [req EXCEPT ![t].plan = SavePlan(events, req[t].batch),
                          ![t].pc = "commit"]
    /\ UNCHANGED <<events, reports, scrapes, twin_rest>>

\* save_events_to_db, session.commit()
SaveEventsCommit(t) ==
    /\ req[t].pc = "commit"
    /\ events' = Committed(events, req[t].batch, req[t].plan, 1)
    /\ req' = [req EXCEPT ![t].pc = "report"]
    /\ UNCHANGED <<reports, scrapes, twin_rest>>

\* generate_report with _save_report_to_db: a Report row is inserted, unless
\* the report could not be made or saved
SaveReport(t) ==
    /\ req[t].pc = "report"
    /\ \E saved \in BOOLEAN :
           IF saved
           THEN /\ reports' = Append(reports,
                        [id |-> Len(reports) + 1, market |-> run_market,
                         date |-> report_date])
                /\ req' = [req EXCEPT ![t].pc = "done",
                                      ![t].report_id = Len(reports) + 1]
           ELSE /\ req' = [req EXCEPT ![t].pc = "done"]
                /\ UNCHANGED reports
    /\ UNCHANGED <<events, scrapes, twin_rest>>

TwoRunsInit ==
    /\ config = DefaultConfig
    /\ events \in {<<>>, <<PriorEvent>>}
    /\ event_analyses = <<>>
    /\ PipelineAtRest
    /\ ChannelAtRest
    /\ ParserAtRest
    /\ AuxAtRest

TwoRunsNext ==
    \E t \in Ctx :
        \/ RouteRequest(t)
        \/ EventsExistForDate(t)
        \/ ScrapePage(t)
        \/ SaveEventsQuery(t)
        \/ SaveEventsCommit(t)
        \/ SaveReport(t)

TwoRunsSpec == TwoRunsInit /\ [][TwoRunsNext]_vars

\* C22: the Event Store holds at most one row per identity (date, event_name,
\* time or none), whatever batches were saved.
C22_OneRowPerIdentity ==
    \A i \in 1..Len(events), j \in 1..Len(events) :
        Identity(events[i]) = Identity(events[j]) => i = j

\* C28: at most one run scrapes events for the date, also when two runs for
\* the date start together.
C28_ScrapedAtMostOnce ==
    Cardinality({t \in Ctx : req[t].batch # <<>>}) <= 1

\* C30: there is at most one Report row per market and date.
C30_OneReportPerMarketAndDate ==
    \A i \in 1..Len(reports), j \in 1..Len(reports) :
        (reports[i].market = reports[j].market /\ reports[i].date = reports[j].date)
            => i = j

-----------------------------------------------------------------------------
(* _get_events_with_analyses: the events of a report and their order *)

\* the events of the date as the store holds them, each with a time, an
\* importance and whether it has an analysis for the market
ReportRows ==
    [time : {8, 9}, importance : {"Low", "Medium", "High"}, analysed : BOOLEAN]

ReportInputs ==
    UNION {[1..n -> ReportRows] : n \in 0..MaxRows}

\* importance is a String(10) column: the database compares its text, and the
\* three values differ in their first character, H (72), L (76) and M (77)
TextKey(importance) ==
    CASE importance = "High" -> 72
      [] importance = "Low" -> 76
      [] importance = "Medium" -> 77

\* order_by(EconomicEvent.time.asc(), EconomicEvent.importance.desc()): a may
\* come before b
MayPrecede(a, b) ==
    \/ a.time < b.time
    \/ a.time = b.time /\ TextKey(a.importance) >= TextKey(b.importance)

\* the orders the query may return the rows in: rows that agree in both keys
\* come in either order
QueryOrders(rows) ==
    {f \in [1..Len(rows) -> 1..Len(rows)] :
        /\ \A i \in 1..Len(rows), j \in 1..Len(rows) : f[i] = f[j] => i = j
        /\ \A i \in 1..Len(rows), j \in 1..Len(rows) :
               i < j => MayPrecede(rows[f[i]], rows[f[j]])}

\* the loop: an event is in the report when it has an analysis
Analysed(r) == r.analysed

ReportInit ==
    /\ report_in \in ReportInputs
    /\ report_out = None
    /\ config = DefaultConfig
    /\ events = <<>>
    /\ event_analyses = <<>>
    /\ PipelineAtRest
    /\ ChannelAtRest
    /\ ParserAtRest
    /\ saved_form = None
    /\ reports = <<>>
    /\ req = [t \in Ctx |-> NoRequest]
    /\ scrapes = 0

GetEventsWithAnalyses ==
    /\ report_out = None
    /\ \E f \in QueryOrders(report_in) :
           report_out' =
               [events_data |->
                   SelectSeq([i \in 1..Len(report_in) |-> report_in[f[i]]],
                             Analysed)]
    /\ UNCHANGED <<pipeline_vars, channel_vars, run_vars, parse_vars,
                   admin_vars, twin_vars, report_in>>

ReportNext == GetEventsWithAnalyses

ReportSpec == ReportInit /\ [][ReportNext]_vars

\* C29: the events of a report come by time ascending and, at one time, by
\* importance descending: High before Medium before Low.
C29_ByTimeThenImportance ==
    report_out # None =>
        LET out == report_out.events_data
        IN  \A i \in 1..Len(out), j \in 1..Len(out) :
                i < j =>
                    \/ out[i].time < out[j].time
                    \/ /\ out[i].time = out[j].time
                       /\ GetEventImportance(out[i].importance)
                              >= GetEventImportance(out[j].importance)

-----------------------------------------------------------------------------
(* C31 *)

\* C31: every `complete` record carries the id of a Report row that is in the
\* store; a run whose report could not be saved ends with `error`.
C31_CompleteNamesStoredReport ==
    \A i \in 1..Len(published) :
        published[i].status = "complete" =>
            \E k \in 1..Len(reports) : reports[k].id = published[i].report_id

-----------------------------------------------------------------------------
(* C32 *)

\* C32: at most one context is inside the `with` block of
\* _enforce_rate_limit at a time, and every context that is inside entered
\* the one lock the class holds.
C32_OneLockForAllInstances ==
    \A t1 \in Ctx, t2 \in Ctx :
        (HoldsLock(t1) /\ HoldsLock(t2)) =>
            /\ t1 = t2
            /\ my_lock[t1] = rate_limit_lock

-----------------------------------------------------------------------------
(* The rate limiter under fair scheduling *)

\* a key is configured and every stored event passes the filter
LimiterInit ==
    /\ Init
    /\ config = [llm_api_key |-> "sk-key", star_filter |-> 1]

\* the answers that differ for the limiter: a request that fails, leaving
\* _last_api_call_time as it was, and one that succeeds and sets it
LimiterReplies ==
    { [status |-> "transport_error", content |-> None], FullReply }

\* the calls of two contexts for the High event, each for a market
LimiterNext ==
    \/ \E t \in Ctx : InitCheckLock(t)
    \/ \E t \in Ctx : InitCreateLock(t)
    \/ \E t \in Ctx, market_symbol \in Markets :
           AnalyzeLookup(t, 2, market_symbol)
    \/ \E t \in Ctx : CheckEvent(t)
    \/ \E t \in Ctx : AcquireLock(t)
    \/ \E t \in Ctx : CheckInterval(t)
    \/ \E t \in Ctx : SleepDone(t)
    \/ \E t \in Ctx : CallStart(t)
    \/ \E t \in Ctx, reply \in LimiterReplies : CallReturn(t, reply)
    \/ \E t \in Ctx : StampAndParse(t)
    \/ \E t \in Ctx : SaveAnalysis(t)
    \/ Tick

\* A context inside _enforce_rate_limit is a running thread: its next
\* statement is executed, its sleep ends when the time has passed, and the
\* clock goes on.  A context blocked in acquire() is woken when the lock is
\* released.  Nothing makes a caller start a call.
FairLimiterSpec ==
    /\ LimiterInit
    /\ [][LimiterNext]_vars
    /\ WF_vars(Tick)
    /\ \A t \in Ctx : WF_vars(CheckInterval(t))
    /\ \A t \in Ctx : WF_vars(SleepDone(t))
    /\ \A t \in Ctx : SF_vars(AcquireLock(t))

\* C33: a sleep inside the lock is never longer than _min_request_interval,
\* and every context that has called _enforce_rate_limit comes to leave it:
\* none waits forever for the lock.
C33_EnforceRateLimitReturns ==
    /\ [](\A t \in Ctx : sleep_left[t] <= min_request_interval)
    /\ \A t \in Ctx : (pc[t] = "rl_acquire") ~> (pc[t] = "post")

\* one context is inside the lock the class holds while the other waits for
\* that lock
C33_Witness ==
    \E t1 \in Ctx, t2 \in Ctx :
        /\ pc[t1] = "rl_read"
        /\ my_lock[t1] = rate_limit_lock
        /\ pc[t2] = "rl_acquire"

-----------------------------------------------------------------------------
(* C34 *)

\* C34: an engine call for a pair that has a stored analysis returns that
\* analysis and issues no request, whatever the star filter is then.
C34_LookupBeforeFilter ==
    \A k \in 1..Len(trace) :
        (trace[k].kind = "analysis" /\ trace[k].stored_before) =>
            /\ trace[k].outcome = "memoized"
            /\ ~trace[k].called
            /\ trace[k].result =
                   MemoResult(ExistingAnalysis(event_analyses, trace[k].event_id,
                                               run_market))

\* the stored analysis of the Low event was returned while the star filter
\* was 3
C34_Witness ==
    \E k \in 1..Len(trace) :
        /\ trace[k].kind = "analysis"
        /\ trace[k].stored_before
        /\ trace[k].outcome = "memoized"
        /\ events[trace[k].event_id].importance = "Low"
        /\ trace[k].star_filter = 3

-----------------------------------------------------------------------------
(* C35 *)

\* a record of a run that went on or completed
Advancing(rec) == rec.status \in {"running", "complete"}

\* C35: every published record has a progress in 0..100; over the `running`
\* and `complete` records the progress never goes down in publish order; the
\* progress of each per-event callback is in 45..70; `complete` carries 100.
C35_ProgressInRangeAndMonotone ==
    /\ \A i \in 1..Len(published) : published[i].progress \in 0..100
    /\ \A i \in 1..Len(published), j \in 1..Len(published) :
           (i < j /\ Advancing(published[i]) /\ Advancing(published[j]))
               => published[i].progress <= published[j].progress
    /\ \A k \in 1..Len(trace) :
           trace[k].kind = "progress" =>
               AnalysisProgress(trace[k].idx, trace[k].total) \in 45..70
    /\ \A i \in 1..Len(published) :
           published[i].status = "complete" => published[i].progress = 100

\* a run over two events has completed: its records go from 0 over 57 for the
\* first event and 70 for the second to 100
C35_Witness ==
    /\ run_pc = "end"
    /\ Len(published) = 11
    /\ published[6].progress = 57
    /\ published[7].progress = 70
    /\ published[11].status = "complete"

====
